---- MODULE Spec2Model ----
(***************************************************************************)
(* Model of openlog's Logger (src/src/openlog/logger.py).                  *)
(*                                                                         *)
(* Strings are sequences of tokens (each token a TLA+ string), so that     *)
(* formatting, splitting and replacing are computed rather than assumed.   *)
(* The process is single threaded: at most one method of one Logger is in  *)
(* progress (pc # "idle"); the wall clock is the only thing that moves     *)
(* while a method runs.  A method is cut into steps exactly at its clock   *)
(* reads and at its file-system / console effects.                         *)
(***************************************************************************)
EXTENDS Integers, Sequences, FiniteSets, TLC

(* ------------------------------ bounds -------------------------------- *)
\* leveled calls made in one behaviour, all loggers together
MaxEmits == 1
\* advances of the wall clock in one behaviour
MaxTicks == 1

\* the Logger instances of the process
Loggers == {"L1", "L2"}
\* instances are numbered in the order they are constructed
Before(k, l) == k = "L1" /\ l = "L2"
\* message texts passed to the leveled methods
Msgs == {"disk full"}
\* values of the prefix argument
Prefixes == {"", "APP"}
\* values of (prefix, short_timestamp): all of them, and the defaults of line 17
AllFormats == Prefixes \X BOOLEAN
\* the same with a lowercase prefix among them
MarkupFormats == (Prefixes \cup {"app"}) \X BOOLEAN
DefaultFormat == {<<"", FALSE>>}

\* the working directory, and the calendar date and hour of the run
Cwd == "<cwd>"
Date == "2024-01-01"
Hour == "10"

(* --------------------------- string helpers --------------------------- *)
RECURSIVE SplitFrom(_, _, _)
\* s.split(sep) for a one-token separator: cur is the piece being read
SplitFrom(s, sep, cur) ==
    IF s = <<>> THEN <<cur>>
    ELSE IF Head(s) = sep THEN <<cur>> \o SplitFrom(Tail(s), sep, <<>>)
    ELSE SplitFrom(Tail(s), sep, Append(cur, Head(s)))

Split(s, sep) == SplitFrom(s, sep, <<>>)

RECURSIVE Join(_, _)
\* sep.join(parts)
Join(parts, sep) ==
    IF parts = <<>> THEN <<>>
    ELSE IF Len(parts) = 1 THEN parts[1]
    ELSE parts[1] \o <<sep>> \o Join(Tail(parts), sep)

\* s.replace(a, b) for one-token a and b
Replace(s, a, b) == [i \in 1..Len(s) |-> IF s[i] = a THEN b ELSE s[i]]

\* str(datetime.now()) for now = <<minute, second, microsecond>>:
\* "YYYY-MM-DD HH:MM:SS.ffffff", the fraction left out when it is zero
StrDatetime(now) ==
    <<Date, " ", Hour, ":", ToString(now[1]), ":", ToString(now[2])>>
        \o (IF now[3] = 0 THEN <<>> ELSE <<".", ToString(now[3])>>)

\* Logger._make_timestamp_string, given the flag and the clock value it reads
_make_timestamp_string(short, now) ==
    LET timestamp == Split(StrDatetime(now), ".")[1]
    IN  IF short
        THEN LET time_part == Split(timestamp, " ")[2]
             IN  Join(SubSeq(Split(time_part, ":"), 1, 2), ":")
        ELSE timestamp

\* the path computed by __init__ (lines 50-60)
SessionPath(path_pfx, now) ==
    <<Cwd, path_pfx, "/log_">>
        \o Replace(Replace(StrDatetime(now), " ", "_"), ":", "-")
        \o <<".txt">>

FixedPath(path_pfx) == <<Cwd, path_pfx, "/log.txt">>

\* the separator line __init__ writes first
HeaderLine(ts) ==
    <<"-----------------------">> \o ts \o <<"-----------------------", "\n">>

\* bare_log_string of _echo (lines 114-117)
BareLogString(ts, pfx, mtype, m) ==
    IF pfx # ""
    THEN <<"[">> \o ts \o <<"]", "::", "[", pfx, "]", "::", mtype, "::", m, "\n">>
    ELSE <<"[">> \o ts \o <<"]", "::", mtype, "::", m, "\n">>

\* color_code of _echo (lines 126-135)
ColorCode(mtype) ==
    CASE mtype = "INFO"  -> "blue bold"
      [] mtype = "ERROR" -> "red bold"
      [] mtype = "WARN"  -> "yellow bold"
      [] mtype = "INIT"  -> "purple bold"
      [] OTHER           -> "white bold"

\* an opening markup tag is the token <<"tag", style>>, the closing tag "[/]"
Tag(style) == "[" \o style \o "]"
StyleTags == {Tag(s) : s \in {"gray", "red bold", "green bold", "blue bold",
                              "yellow bold", "purple bold", "white bold"}}

\* the markup string handed to Console.print (lines 137-144)
ConsoleMarkup(ts, pfx, mtype, m) ==
    IF pfx # ""
    THEN <<Tag("gray"), "[">> \o ts \o <<"]", "[/]", Tag("red bold"), "::", "[/]",
           Tag("green bold"), "[", pfx, "]", "[/]", Tag("red bold"), "::", "[/]",
           Tag(ColorCode(mtype)), mtype, "[/]", Tag("red bold"), "::", "[/]", m>>
    ELSE <<Tag("gray"), "[">> \o ts \o <<"]", "[/]", Tag("red bold"), "::", "[/]",
           Tag(ColorCode(mtype)), mtype, "[/]", Tag("red bold"), "::", "[/]", m>>

\* the texts of the model that Console.print reads as a tag when they stand
\* in brackets: those that start with a lowercase letter, "#", "/" or "@"
TagLike == {"app"}

RECURSIVE StripTags(_)
\* the markup without its tags: the style tags _echo writes, the closing tags,
\* and whatever else in brackets reads as a tag (an unknown style is ignored)
StripTags(s) ==
    IF s = <<>> THEN <<>>
    ELSE IF Head(s) \in StyleTags \/ Head(s) = "[/]" THEN StripTags(Tail(s))
    ELSE IF Len(s) >= 3 /\ s[1] = "[" /\ s[2] \in TagLike /\ s[3] = "]"
         THEN StripTags(SubSeq(s, 4, Len(s)))
    ELSE <<Head(s)>> \o StripTags(Tail(s))

\* the text Console.print puts on the terminal: markup tags dropped, newline added
Rendered(markup) == StripTags(markup) \o <<"\n">>

(* ------------------------------- state -------------------------------- *)
VARIABLES
    clock,            \* datetime.now(): <<minute, second, microsecond>>
    nticks,           \* advances of the clock so far
    dirExists,        \* os.path.isdir(cwd + "/logs")
    files,            \* path |-> lines of the file, for the files that exist
    handles,          \* file objects opened and not closed
    console,          \* lines shown on the terminal, oldest first
    logger,           \* the attributes of each Logger instance
    pc,               \* the step the running method is at, "idle" between calls
    method,           \* the public method running (or the last one that ran)
    self,             \* the instance it runs on
    msg,              \* argument msg of _echo
    m_type,           \* argument m_type of _echo
    bare_log_string,  \* local of _echo
    log_file,         \* local of __init__ and _echo: the path of the open file, or <<>>
    nemits,           \* leveled calls made so far
    pre,              \* observer: what the running method found when it was called
    last,             \* observer: the last call that completed, with its outcome
    emitted,          \* observer: per instance, the lines its calls have written
    mark,             \* observer: per instance, how many of them its last flush saw
    prevMark          \* observer: per instance, how many the flush before that saw

vars == <<clock, nticks, dirExists, files, handles, console, logger, pc,
          method, self, msg, m_type, bare_log_string, log_file, nemits,
          pre, last, emitted, mark, prevMark>>

\* an instance before __init__ has run on it
NoLogger ==
    [alive |-> "none", write_to_file |-> FALSE, prefix |-> "",
     short_timestamp |-> FALSE, in_dir |-> FALSE, path_prefix |-> "",
     session |-> FALSE, log_file_path |-> <<>>,
     log_list |-> <<>>, log_list_to_send |-> <<>>]

\* one completed call: what it was, what it returned or raised
Event(op, l, from_start, line, result, outcome) ==
    [op |-> op, self |-> l, from_start |-> from_start, line |-> line,
     result |-> result, outcome |-> outcome]

\* no call has completed, or one is running
NoEvent == Event("none", "L1", FALSE, <<>>, <<>>, "return")

LeveledOps == {"log", "error", "warn", "init"}

Exists(path) == path \in DOMAIN files
\* the file at path with lines as its content
WithFile(path, lines) == [p \in (DOMAIN files) \cup {path} |->
                             IF p = path THEN lines ELSE files[p]]
\* what a method called on instance l finds
Snapshot(l) ==
    [dirExists |-> dirExists, files |-> files, console |-> console,
     log_list |-> logger[l].log_list,
     log_list_to_send |-> logger[l].log_list_to_send]

Init ==
    /\ clock = <<0, 0, 0>>
    /\ nticks = 0
    /\ dirExists \in BOOLEAN
    /\ files = <<>>
    /\ handles = 0
    /\ console = <<>>
    /\ logger = [l \in Loggers |-> NoLogger]
    /\ pc = "idle"
    /\ method = "none"
    /\ self = "L1"
    /\ msg = ""
    /\ m_type = ""
    /\ bare_log_string = <<>>
    /\ log_file = <<>>
    /\ nemits = 0
    /\ pre = Snapshot("L1")
    /\ last = NoEvent
    /\ emitted = [l \in Loggers |-> <<>>]
    /\ mark = [l \in Loggers |-> 0]
    /\ prevMark = [l \in Loggers |-> 0]

\* the steps that read the clock (lines 56, 67, 115/117, 139/143)
ReadsClock(S) ==
    \/ pc \in {"ctor_write", "_echo", "echo_print"}
    \/ pc = "idle" /\ \E l \in S : logger[l].alive = "none"

\* the clock moves on: a microsecond, or into the next second, or the next minute.
\* Time passing is only observable by the next read, so it is taken there;
\* S is the set of instances the process constructs.
Tick(S) ==
    /\ nticks < MaxTicks
    /\ ReadsClock(S)
    /\ nticks' = nticks + 1
    /\ \/ clock' = <<clock[1], clock[2], clock[3] + 1>>
       \/ clock' = <<clock[1], clock[2] + 1, 0>>
       \/ clock' = <<clock[1] + 1, 0, 0>>
    /\ UNCHANGED <<dirExists, files, handles, console, logger, pc, method, self,
                   msg, m_type, bare_log_string, log_file, nemits,
                   pre, last, emitted, mark, prevMark>>

\* the running method returns or raises: the observers take note.  A leveled
\* call has written its line when it got past line 121.
Finish(outcome, line, result) ==
    /\ pc' = "idle"
    /\ last' = Event(method, self, FALSE, line, result, outcome)
    /\ emitted' = IF method \in LeveledOps /\ logger[self].write_to_file
                     /\ outcome \in {"return", "ConsoleError"}
                  THEN [emitted EXCEPT ![self] = Append(@, line)]
                  ELSE emitted
    /\ UNCHANGED <<mark, prevMark>>

(* ------------------------------ __init__ ------------------------------ *)
\* the directory made whenever it is missing, file logging or not
MkdirNeededAnyMode(in_dir, write_to_file) == in_dir /\ ~dirExists

\* lines 44-48: whether __init__ calls os.mkdir
MkdirNeeded(in_dir, write_to_file) == in_dir /\ ~dirExists /\ write_to_file

\* the header appended to whatever the file holds
CtorModeAppend == "a+"

\* line 65: the mode __init__ opens the file with
CtorMode == "w+"

\* lines 36-63: attributes, the logs directory, the path, the two lists;
\* the caller passes prefix and short_timestamp from Formats
__init__(l, Formats) ==
    /\ pc = "idle"
    /\ logger[l].alive = "none"
    /\ \A k \in Loggers : Before(k, l) => logger[k].alive # "none"
    /\ \E wtf \in BOOLEAN, ind \in BOOLEAN, ses \in BOOLEAN,
          fmt \in Formats, mkdir_ok \in BOOLEAN :
        LET pfx == fmt[1]
            sht == fmt[2]
            path_pfx == IF ind THEN "/logs" ELSE ""
            mkdir == MkdirNeeded(ind, wtf)
            path == IF ses THEN SessionPath(path_pfx, clock) ELSE FixedPath(path_pfx)
            early == [NoLogger EXCEPT !.write_to_file = wtf, !.prefix = pfx,
                                      !.short_timestamp = sht, !.in_dir = ind,
                                      !.path_prefix = path_pfx]
            whole == [early EXCEPT !.session = ses, !.log_file_path = path]
        IN  /\ mkdir_ok \/ mkdir
            /\ method' = "__init__"
            /\ self' = l
            /\ pre' = Snapshot(l)
            /\ UNCHANGED <<clock, nticks, files, handles, console, msg, m_type,
                           bare_log_string, log_file, nemits, emitted, mark,
                           prevMark>>
            /\ IF mkdir /\ ~mkdir_ok
               THEN \* os.mkdir raises
                    /\ logger' = [logger EXCEPT ![l] = [early EXCEPT !.alive = "failed"]]
                    /\ UNCHANGED dirExists
                    /\ pc' = "idle"
                    /\ last' = Event("__init__", l, FALSE, <<>>, <<>>,
                                     "DirectoryCreationError")
               ELSE /\ dirExists' = (dirExists \/ mkdir)
                    /\ IF wtf
                       THEN /\ logger' = [logger EXCEPT ![l] =
                                             [whole EXCEPT !.alive = "constructing"]]
                            /\ pc' = "ctor_open"
                            /\ last' = NoEvent
                       ELSE /\ logger' = [logger EXCEPT ![l] =
                                             [whole EXCEPT !.alive = "ready"]]
                            /\ pc' = "idle"
                            /\ last' = Event("__init__", l, FALSE, <<>>, <<>>, "return")

\* Logger._open_log_file: open(self.log_file_path, mode), which may raise;
\* "w+" creates or truncates the file, "a+" creates it when it is missing
_open_log_file(mode, ok) ==
    IF ok
    THEN /\ files' = WithFile(logger[self].log_file_path,
                              IF mode = "w+" \/ ~Exists(logger[self].log_file_path)
                              THEN <<>> ELSE files[logger[self].log_file_path])
         /\ handles' = handles + 1
         /\ log_file' = logger[self].log_file_path
    ELSE UNCHANGED <<files, handles, log_file>>

\* line 65
ctor_open ==
    /\ pc = "ctor_open"
    /\ \E ok \in BOOLEAN :
        /\ _open_log_file(CtorMode, ok)
        /\ IF ok
           THEN /\ pc' = "ctor_write"
                /\ UNCHANGED <<last, emitted, mark, prevMark, logger>>
           ELSE /\ Finish("FileOpenError", <<>>, <<>>)
                /\ logger' = [logger EXCEPT ![self].alive = "failed"]
    /\ UNCHANGED <<clock, nticks, dirExists, console, method, self, msg, m_type,
                   bare_log_string, nemits, pre>>

\* lines 66-68: the header, with the timestamp read now
ctor_write ==
    /\ pc = "ctor_write"
    /\ \E ok \in BOOLEAN :
        IF ok
        THEN /\ files' = WithFile(log_file, Append(files[log_file],
                    HeaderLine(_make_timestamp_string(logger[self].short_timestamp, clock))))
             /\ pc' = "ctor_close"
             /\ UNCHANGED <<last, emitted, mark, prevMark, logger, log_file>>
        ELSE /\ UNCHANGED files
             /\ log_file' = <<>>
             /\ Finish("FileWriteError", <<>>, <<>>)
             /\ logger' = [logger EXCEPT ![self].alive = "failed"]
    /\ UNCHANGED <<clock, nticks, dirExists, handles, console, method, self, msg,
                   m_type, bare_log_string, nemits, pre>>

\* line 69
ctor_close ==
    /\ pc = "ctor_close"
    /\ handles' = handles - 1
    /\ log_file' = <<>>
    /\ logger' = [logger EXCEPT ![self].alive = "ready"]
    /\ Finish("return", <<>>, <<>>)
    /\ UNCHANGED <<clock, nticks, dirExists, files, console, method, self, msg,
                   m_type, bare_log_string, nemits, pre>>

(* ------------------------------- _echo -------------------------------- *)
\* a leveled method is called on a constructed Logger: it calls _echo(msg, level)
Call_echo(l, name, level) ==
    /\ pc = "idle"
    /\ logger[l].alive = "ready"
    /\ nemits < MaxEmits
    /\ nemits' = nemits + 1
    /\ \E m \in Msgs : msg' = m
    /\ method' = name
    /\ self' = l
    /\ m_type' = level
    /\ bare_log_string' = <<>>
    /\ pre' = Snapshot(l)
    /\ pc' = "_echo"
    /\ last' = NoEvent
    /\ prevMark' = [prevMark EXCEPT ![l] = mark[l]]
    /\ UNCHANGED <<clock, nticks, dirExists, files, handles, console, logger,
                   log_file, emitted, mark>>

\* the lists appended to before the file is written
EchoOrderListsFirst == <<"echo_log_list", "echo_to_send", "echo_open",
                         "echo_write", "echo_close", "echo_print">>

\* lines 119-144: the statements of _echo after the line is formatted, in order
EchoOrder == <<"echo_open", "echo_write", "echo_close",
               "echo_log_list", "echo_to_send", "echo_print">>

\* the statement that follows step
After(step) ==
    LET i == CHOOSE k \in 1..Len(EchoOrder) : EchoOrder[k] = step
    IN  EchoOrder[i + 1]

\* the file branch taken whatever write_to_file says
WritesToFileAlways(lg) == TRUE

\* line 113: the guard of the file branch
WritesToFile(lg) == lg.write_to_file

\* lines 146-192
log(l) == Call_echo(l, "log", "INFO")
error(l) == Call_echo(l, "error", "ERROR")
warn(l) == Call_echo(l, "warn", "WARN")
init(l) == Call_echo(l, "init", "INIT")

\* lines 113-117: the plain line, with the timestamp read now
_echo ==
    /\ pc = "_echo"
    /\ IF WritesToFile(logger[self])
       THEN /\ bare_log_string' =
                   BareLogString(_make_timestamp_string(logger[self].short_timestamp, clock),
                                 logger[self].prefix, m_type, msg)
            /\ pc' = EchoOrder[1]
       ELSE /\ UNCHANGED bare_log_string
            /\ pc' = "echo_print"
    /\ UNCHANGED <<clock, nticks, dirExists, files, handles, console, logger,
                   method, self, msg, m_type, log_file, nemits,
                   pre, last, emitted, mark, prevMark>>

\* every leveled call starting the file afresh
EchoModeTruncate == "w+"

\* line 71: the default mode of _open_log_file, which line 119 relies on
EchoMode == "a+"

\* line 119
echo_open ==
    /\ pc = "echo_open"
    /\ \E ok \in BOOLEAN :
        /\ _open_log_file(EchoMode, ok)
        /\ IF ok
           THEN /\ pc' = After("echo_open")
                /\ UNCHANGED <<last, emitted, mark, prevMark,
                               msg, m_type, bare_log_string>>
           ELSE /\ Finish("FileOpenError", bare_log_string, <<>>)
                /\ msg' = ""
                /\ m_type' = ""
                /\ bare_log_string' = <<>>
    /\ UNCHANGED <<clock, nticks, dirExists, console, logger, method, self,
                   nemits, pre>>

\* line 120
echo_write ==
    /\ pc = "echo_write"
    /\ \E ok \in BOOLEAN :
        IF ok
        THEN /\ files' = WithFile(log_file, Append(files[log_file], bare_log_string))
             /\ pc' = After("echo_write")
             /\ UNCHANGED <<last, emitted, mark, prevMark, log_file,
                            msg, m_type, bare_log_string>>
        ELSE /\ UNCHANGED files
             /\ log_file' = <<>>
             /\ Finish("FileWriteError", bare_log_string, <<>>)
             /\ msg' = ""
             /\ m_type' = ""
             /\ bare_log_string' = <<>>
    /\ UNCHANGED <<clock, nticks, dirExists, handles, console, logger, method, self,
                   nemits, pre>>

\* line 121
echo_close ==
    /\ pc = "echo_close"
    /\ handles' = handles - 1
    /\ log_file' = <<>>
    /\ pc' = After("echo_close")
    /\ UNCHANGED <<clock, nticks, dirExists, files, console, logger, method, self,
                   msg, m_type, bare_log_string, nemits,
                   pre, last, emitted, mark, prevMark>>

\* line 123
echo_log_list ==
    /\ pc = "echo_log_list"
    /\ logger' = [logger EXCEPT ![self].log_list = Append(@, bare_log_string)]
    /\ pc' = After("echo_log_list")
    /\ UNCHANGED <<clock, nticks, dirExists, files, handles, console, method, self,
                   msg, m_type, bare_log_string, log_file, nemits,
                   pre, last, emitted, mark, prevMark>>

\* line 124
echo_to_send ==
    /\ pc = "echo_to_send"
    /\ logger' = [logger EXCEPT ![self].log_list_to_send = Append(@, bare_log_string)]
    /\ pc' = After("echo_to_send")
    /\ UNCHANGED <<clock, nticks, dirExists, files, handles, console, method, self,
                   msg, m_type, bare_log_string, log_file, nemits,
                   pre, last, emitted, mark, prevMark>>

\* the timestamp the console line carries (lines 139 and 143)
ConsoleTimestamp(short, now) == _make_timestamp_string(short, now)

\* lines 126-144: the colorized line, with the timestamp read now; Console.print
\* may raise, and nothing in _echo catches it
echo_print ==
    /\ pc = "echo_print"
    /\ \E ok \in BOOLEAN :
        IF ok
        THEN /\ console' = Append(console,
                    Rendered(ConsoleMarkup(
                        ConsoleTimestamp(logger[self].short_timestamp, clock),
                        logger[self].prefix, m_type, msg)))
             /\ Finish("return", bare_log_string, <<>>)
        ELSE /\ UNCHANGED console
             /\ Finish("ConsoleError", bare_log_string, <<>>)
    /\ msg' = ""
    /\ m_type' = ""
    /\ bare_log_string' = <<>>
    /\ UNCHANGED <<clock, nticks, dirExists, files, handles, logger, method, self,
                   log_file, nemits, pre>>

(* ----------------------------- flush_logs ----------------------------- *)
\* from_start ignored
FlushSourcePending(lg, from_start) == lg.log_list_to_send

\* lines 206-207: the list the flush works on
FlushSource(lg, from_start) ==
    IF from_start THEN lg.log_list ELSE lg.log_list_to_send

\* log_list_to_send not cleared
FlushResetKept(to_send) == to_send

\* line 209: log_list_to_send after the flush
FlushReset(to_send) == <<>>

\* the list that log_list_to_send was bound to at line 207 emptied in place
FlushHistoryCleared(lg, from_start) ==
    IF from_start THEN <<>> ELSE lg.log_list

\* lines 207-209: self.log_list after the flush; line 209 binds
\* log_list_to_send to a new list and leaves the one it shared alone
FlushHistory(lg, from_start) == lg.log_list

\* lines 206-210, returning the copy made at line 208
flush_logs(l, from_start) ==
    /\ pc = "idle"
    /\ logger[l].alive = "ready"
    /\ LET to_send == FlushSource(logger[l], from_start)
           log_list == to_send
       IN  /\ logger' = [logger EXCEPT
                            ![l].log_list_to_send = FlushReset(to_send),
                            ![l].log_list = FlushHistory(logger[l], from_start)]
           /\ last' = Event("flush_logs", l, from_start, <<>>, log_list, "return")
    /\ method' = "flush_logs"
    /\ self' = l
    /\ pre' = Snapshot(l)
    /\ prevMark' = [prevMark EXCEPT ![l] = mark[l]]
    /\ mark' = [mark EXCEPT ![l] = Len(emitted[l])]
    /\ UNCHANGED <<clock, nticks, dirExists, files, handles, console, pc, msg,
                   m_type, bare_log_string, log_file, nemits, emitted>>

(* --------------------------- specification ---------------------------- *)
\* one Logger, every method
Next ==
    \/ Tick({"L1"})
    \/ __init__("L1", AllFormats)
    \/ ctor_open
    \/ ctor_write
    \/ ctor_close
    \/ log("L1")
    \/ error("L1")
    \/ warn("L1")
    \/ init("L1")
    \/ _echo
    \/ echo_open
    \/ echo_write
    \/ echo_close
    \/ echo_log_list
    \/ echo_to_send
    \/ echo_print
    \/ \E from_start \in BOOLEAN : flush_logs("L1", from_start)

Spec == Init /\ [][Next]_vars

\* one Logger, every method, its prefix in upper or in lower case
NextMarkup ==
    \/ Tick({"L1"})
    \/ __init__("L1", MarkupFormats)
    \/ ctor_open
    \/ ctor_write
    \/ ctor_close
    \/ log("L1")
    \/ error("L1")
    \/ warn("L1")
    \/ init("L1")
    \/ _echo
    \/ echo_open
    \/ echo_write
    \/ echo_close
    \/ echo_log_list
    \/ echo_to_send
    \/ echo_print
    \/ \E from_start \in BOOLEAN : flush_logs("L1", from_start)

SpecMarkup == Init /\ [][NextMarkup]_vars

\* two Loggers in one process, constructed one after the other with the default
\* prefix and timestamp format, and logging
NextPair ==
    \/ Tick(Loggers)
    \/ \E l \in Loggers : __init__(l, DefaultFormat)
    \/ ctor_open
    \/ ctor_write
    \/ ctor_close
    \/ \E l \in Loggers : log(l)
    \/ _echo
    \/ echo_open
    \/ echo_write
    \/ echo_close
    \/ echo_log_list
    \/ echo_to_send
    \/ echo_print

SpecPair == Init /\ [][NextPair]_vars

(* ------------------------------- claims ------------------------------- *)
FileErrors == {"FileOpenError", "FileWriteError"}
\* instance l got as far as computing its path
HasPath(l) == logger[l].log_file_path # <<>>
\* the clock values a behaviour can show
Instants == (0..MaxTicks) \X (0..MaxTicks) \X (0..MaxTicks)

C3_NoFileNoBuffers ==
    \A l \in Loggers :
        (logger[l].alive # "none" /\ ~logger[l].write_to_file)
            => /\ logger[l].log_list = <<>>
               /\ logger[l].log_list_to_send = <<>>
               /\ self = l => /\ files = pre.files
                              /\ dirExists = pre.dirExists
                              /\ handles = 0
               /\ (last.op = "flush_logs" /\ last.self = l) => last.result = <<>>

\* a console-only Logger has logged a line and has been flushed
C3_Witness ==
    /\ logger["L1"].alive = "ready" /\ ~logger["L1"].write_to_file
    /\ console # <<>>
    /\ last.op = "flush_logs"

\* C4: two Loggers with session=True and the same in_dir have distinct paths.
C4_SessionPathsDistinct ==
    (/\ HasPath("L1") /\ HasPath("L2")
     /\ logger["L1"].session /\ logger["L2"].session
     /\ logger["L1"].in_dir = logger["L2"].in_dir)
        => logger["L1"].log_file_path # logger["L2"].log_file_path

\* C5: with session=False and write_to_file=True the path is the fixed one,
\* shared with every other such Logger of the same in_dir, and right after
\* construction the file holds the new header line and nothing else.
C5_SecondConstructionTruncates ==
    (/\ pc = "idle" /\ last.op = "__init__" /\ last.outcome = "return"
     /\ logger[last.self].write_to_file /\ ~logger[last.self].session)
        => LET me == logger[last.self]
           IN  /\ me.log_file_path = <<Cwd, me.path_prefix, "/log.txt">>
               /\ \A l \in Loggers :
                    (HasPath(l) /\ ~logger[l].session /\ logger[l].in_dir = me.in_dir)
                        => logger[l].log_file_path = me.log_file_path
               /\ Exists(me.log_file_path)
               /\ Len(files[me.log_file_path]) = 1
               /\ files[me.log_file_path][1] \in
                    {HeaderLine(_make_timestamp_string(me.short_timestamp, t)) :
                        t \in Instants}

\* the second Logger has just been constructed on the file the first one logged to
C5_Witness ==
    /\ pc = "idle" /\ last.op = "__init__" /\ last.outcome = "return"
    /\ last.self = "L2"
    /\ logger["L2"].write_to_file /\ ~logger["L2"].session
    /\ logger["L1"].log_file_path = logger["L2"].log_file_path
    /\ emitted["L1"] # <<>>
    /\ Len(pre.files[logger["L2"].log_file_path]) >= 2

\* C6: the console line of a leveled call carries the same text, field for
\* field, as the line the call wrote to the file and the lists.
C6_ConsoleMatchesFile ==
    (/\ pc = "idle" /\ last.op \in LeveledOps /\ last.outcome = "return"
     /\ logger[last.self].write_to_file)
        => console[Len(console)] = last.line

\* C7: a leveled call never ends by raising a console failure.
C7_ConsoleFailureNotRaised ==
    (pc = "idle" /\ last.op \in LeveledOps) => last.outcome # "ConsoleError"

\* C8: a leveled call that raises a file error has left both lists and the
\* console as it found them.
C8_FileErrorLeavesBuffers ==
    (pc = "idle" /\ last.op \in LeveledOps /\ last.outcome \in FileErrors)
        => /\ logger[last.self].log_list = pre.log_list
           /\ logger[last.self].log_list_to_send = pre.log_list_to_send
           /\ console = pre.console

\* a leveled call has raised a file error
C8_Witness ==
    /\ pc = "idle" /\ last.op \in LeveledOps /\ last.outcome \in FileErrors
    /\ logger[last.self].write_to_file

\* C9 as claimed: a construction that raises leaves the file system as it was.
C9_ConstructionAtomic ==
    (pc = "idle" /\ last.op = "__init__" /\ last.outcome # "return")
        => /\ dirExists = pre.dirExists
           /\ files = pre.files

\* C9 as amended: a construction that raises leaves the effects of the steps
\* before the failing one.  Failing to create the directory leaves nothing;
\* failing to open the file leaves the files as they were, and the directory
\* when it was created; failing to write the header leaves, besides, the log
\* file created or truncated, and empty.
C9_FailureKeepsEarlierEffects ==
    (pc = "idle" /\ last.op = "__init__" /\ last.outcome # "return")
        => LET me == logger[last.self]
               created == me.in_dir /\ me.write_to_file /\ ~pre.dirExists
           IN  CASE last.outcome = "DirectoryCreationError" ->
                        /\ dirExists = pre.dirExists
                        /\ files = pre.files
                 [] last.outcome = "FileOpenError" ->
                        /\ dirExists = (pre.dirExists \/ created)
                        /\ files = pre.files
                 [] last.outcome = "FileWriteError" ->
                        /\ dirExists = (pre.dirExists \/ created)
                        /\ DOMAIN files = DOMAIN pre.files \cup {me.log_file_path}
                        /\ \A f \in DOMAIN files :
                             files[f] = IF f = me.log_file_path THEN <<>>
                                        ELSE pre.files[f]

\* a construction failed writing its header to a file that had content
C9_Witness ==
    /\ pc = "idle" /\ last.op = "__init__" /\ last.outcome = "FileWriteError"
    /\ logger[last.self].log_file_path \in DOMAIN pre.files
    /\ pre.files[logger[last.self].log_file_path] # <<>>

\* C10: __init__ creates the logs directory exactly when in_dir and
\* write_to_file are set and the directory is missing (and os.mkdir does not
\* raise); no other method creates or removes it.
C10_DirectoryCreatedOnlyWhenNeeded ==
    IF method = "__init__"
    THEN LET me == logger[self]
             mkdir_raised == last.op = "__init__"
                             /\ last.outcome = "DirectoryCreationError"
         IN  (dirExists /\ ~pre.dirExists)
                 <=> (me.in_dir /\ me.write_to_file /\ ~pre.dirExists /\ ~mkdir_raised)
    ELSE dirExists = pre.dirExists

\* a construction has created the directory
C10_Witness ==
    /\ method = "__init__"
    /\ dirExists /\ ~pre.dirExists

\* the lines of the file of instance l after its header line
Body(l) == Tail(files[logger[l].log_file_path])
\* s is an initial part of t
IsPrefix(s, t) == Len(s) <= Len(t) /\ SubSeq(t, 1, Len(s)) = s

\* a separator line: a timestamp between two runs of dashes
IsHeaderLine(line) ==
    /\ Len(line) >= 4
    /\ line[1] = HeaderLine(<<>>)[1]
    /\ SubSeq(line, Len(line) - 1, Len(line)) = Tail(HeaderLine(<<>>))
    /\ \A i \in 2..(Len(line) - 2) : line[i] \notin {"::", "[", "]", "\n"}

Fields(line) == Split(SubSeq(line, 1, Len(line) - 1), "::")

\* the line has no prefix field when pfx is empty, and else exactly one field
\* [pfx], between the timestamp field and the level tag
PrefixFieldOk(line, pfx) ==
    LET f == Fields(line)
    IN  IF pfx = ""
        THEN /\ Len(f) = 3
             /\ \A i \in 1..Len(f) : f[i] # <<>> /\ f[i] # <<"[", "", "]">>
        ELSE /\ Len(f) = 4
             /\ f[2] = <<"[", pfx, "]">>
             /\ Cardinality({i \in 1..Len(f) : f[i] = <<"[", pfx, "]">>}) = 1

\* C12: the console line of a leveled call, and the line it wrote to the file
\* and the lists, have no prefix field when prefix is empty and exactly one
\* field [prefix] in second place when it is not.
C12_PrefixField ==
    (pc = "idle" /\ last.op \in LeveledOps /\ last.outcome = "return")
        => LET me == logger[last.self]
           IN  /\ PrefixFieldOk(console[Len(console)], me.prefix)
               /\ me.write_to_file =>
                    /\ PrefixFieldOk(last.line, me.prefix)
                    /\ me.log_list[Len(me.log_list)] = last.line
                    /\ files[me.log_file_path][Len(files[me.log_file_path])] = last.line

\* s is a final part of t
IsSuffix(s, t) ==
    Len(s) <= Len(t) /\ SubSeq(t, Len(t) - Len(s) + 1, Len(t)) = s

C14_NoHandleLeftOpen ==
    pc = "idle" => handles = 0

\* the lines of a sequence
Range(s) == {s[i] : i \in 1..Len(s)}

\* C15: in a leveled call of a Logger that writes to its file, the line goes to
\* the file, then to log_list, then to log_list_to_send, then to the console.
\* In every state, the calls' intermediate ones included, a line of
\* log_list_to_send is in log_list, log_list is in the file after the header,
\* and the console is written only once the line is in the file and both lists.
C15_FileThenListsThenConsole ==
    (logger["L1"].alive = "ready" /\ logger["L1"].write_to_file)
        => LET me == logger["L1"]
               path == me.log_file_path
           IN  /\ Range(me.log_list_to_send) \subseteq Range(me.log_list)
               /\ IsPrefix(me.log_list, Body("L1"))
               /\ pc \in {"echo_open", "echo_write", "echo_close",
                          "echo_log_list", "echo_to_send"}
                    => console = pre.console
               /\ pc \in {"echo_open", "echo_write"}
                    => /\ Exists(path) => files[path] = pre.files[path]
                       /\ me.log_list = pre.log_list
                       /\ me.log_list_to_send = pre.log_list_to_send
               /\ pc \in {"echo_close", "echo_log_list"}
                    => /\ files[path] = Append(pre.files[path], bare_log_string)
                       /\ me.log_list = pre.log_list
                       /\ me.log_list_to_send = pre.log_list_to_send
               /\ pc = "echo_to_send"
                    => /\ files[path] = Append(pre.files[path], bare_log_string)
                       /\ me.log_list = Append(pre.log_list, bare_log_string)
                       /\ me.log_list_to_send = pre.log_list_to_send
               /\ pc = "echo_print"
                    => /\ files[path] = Append(pre.files[path], bare_log_string)
                       /\ me.log_list = Append(pre.log_list, bare_log_string)
                       /\ me.log_list_to_send =
                            Append(pre.log_list_to_send, bare_log_string)
                       /\ console = pre.console

\* an intermediate point: the line is in the file and in log_list, not yet in
\* log_list_to_send nor on the console
C15_Witness ==
    /\ pc = "echo_to_send"
    /\ bare_log_string \in Range(Body("L1"))
    /\ bare_log_string \in Range(logger["L1"].log_list)
    /\ bare_log_string \notin Range(logger["L1"].log_list_to_send)
    /\ console = pre.console

====
